---------------------------- MODULE Spec2Model ----------------------------
(***************************************************************************)
(* Model of app/routes/_auth+/reset-password.tsx: the verification         *)
(* callback handleVerification, the route's loader and its action, driven  *)
(* by one browser that carries its cookie from one response to the next    *)
(* request.                                                                *)
(*                                                                         *)
(* handleVerification is split at its three awaits (findFirst, getSession, *)
(* commitSession); the code between two awaits is one atomic step.         *)
(***************************************************************************)
EXTENDS Naturals, Sequences, FiniteSets, TLC

VARIABLES
    store,          \* prisma.user rows, in the order findFirst scans them
    jar,            \* the browser's cookie for the verification session
    pc,             \* position of the request being served
    req,            \* the request being served
    submission,     \* the Submission object handed to handleVerification
    target,         \* local: const target
    user,           \* local: const user
    verifySession,  \* local: const verifySession (its data)
    trace,          \* collaborator calls and completions of the current call
    resp,           \* the outcome of the request being served
    hist,           \* the previous exchange seen by the browser
    lastOk          \* target of the most recent verification that redirected

vars == <<store, jar, pc, req, submission, target, user, verifySession,
          trace, resp, hist, lastOk>>

---------------------------------------------------------------------------
(* Bounds *)

\* Largest number of rows in the account store.
MaxAccounts == 2

---------------------------------------------------------------------------
(* Strings *)

resetPasswordUsernameSessionKey == "resetPasswordUsername"

\* Another key the same session storage holds (set by other routes).
otherSessionKey == "onboardingEmail"

\* A message that tells the caller no account has the target.
UserNotFoundCode == "User not found"

InvalidCode == "Invalid code"

InvariantMessage == "submission.value should be defined by now"

NotImplementedMessage == "This has not yet been implemented"

LoaderPlaceholder == "get this from the session"

ResetPasswordPath == "/reset-password"

UserNames == <<"alice", "bob", "carol", "dave">>

Emails == <<"alice@example.com", "bob@example.com", "carol@example.com",
            "dave@example.com">>

GhostTarget == "ghost@example.com"

\* No value: a missing object, a null row, an absent header.
Undefined == [defined |-> FALSE]

\* An empty JavaScript object / empty session data.
EmptyMap == <<>>

---------------------------------------------------------------------------
(* The account store (prisma.user) *)

Account(i) == [username |-> UserNames[i], email |-> Emails[i]]

\* A row whose username is the text of account 1's email: the store keeps
\* usernames unique and emails unique, each on its own.
CrossAccount == [username |-> Emails[1], email |-> "x@example.com"]

CandidateAccounts == {Account(i) : i \in 1..MaxAccounts} \cup {CrossAccount}

NoDuplicates(s) ==
    \A i, j \in DOMAIN s :
        i # j => /\ s[i].username # s[j].username
                 /\ s[i].email # s[j].email

Stores ==
    {s \in UNION {[1..n -> CandidateAccounts] : n \in 0..MaxAccounts} :
        NoDuplicates(s)}

Matches(row, t) == row.email = t \/ row.username = t

MatchingRows(rows, t) == {i \in DOMAIN rows : Matches(rows[i], t)}

\* A lookup whose where clause has the username alternative only.
FindFirstUsernameOnly(rows, t) ==
    LET hits == {i \in DOMAIN rows : rows[i].username = t}
    IN  IF hits = {} THEN Undefined
        ELSE LET i == CHOOSE k \in hits : \A m \in hits : k <= m
             IN  [defined |-> TRUE, email |-> rows[i].email,
                  username |-> rows[i].username]

\* prisma.user.findFirst({ where: { OR: [{ email }, { username }] },
\*                         select: { email, username } })
FindFirst(rows, t) ==
    LET hits == MatchingRows(rows, t)
    IN  IF hits = {} THEN Undefined
        ELSE LET i == CHOOSE k \in hits : \A m \in hits : k <= m
             IN  [defined |-> TRUE, email |-> rows[i].email,
                  username |-> rows[i].username]

Targets ==
    {UserNames[i] : i \in 1..MaxAccounts} \cup
    {Emails[i] : i \in 1..MaxAccounts} \cup {GhostTarget}

---------------------------------------------------------------------------
(* The cookie session storage (verifySessionStorage) *)

SessionKeys == {resetPasswordUsernameSessionKey, otherSessionKey}

\* The order in which the session data is written out.
KeyOrder == <<otherSessionKey, resetPasswordUsernameSessionKey>>

\* session.set(key, value)
SessionSet(data, key, value) ==
    [k \in DOMAIN data \cup {key} |-> IF k = key THEN value ELSE data[k]]

Has(data, key) == key \in DOMAIN data

\* Session data written out as a list of key/value pairs.
Encode(data) ==
    LET ks == SelectSeq(KeyOrder, LAMBDA k : k \in DOMAIN data)
    IN  [i \in 1..Len(ks) |-> <<ks[i], data[ks[i]]>>]

Decode(pairs) ==
    [k \in {pairs[i][1] : i \in DOMAIN pairs} |->
        pairs[CHOOSE i \in DOMAIN pairs : pairs[i][1] = k][2]]

\* A cookie value: the payload and whether its signature verifies.
Signed(pairs) == [defined |-> TRUE, payload |-> pairs, sig |-> "valid"]

Tampered(pairs) == [defined |-> TRUE, payload |-> pairs, sig |-> "invalid"]

\* verifySessionStorage.getSession(cookieHeader): the session parsed from
\* the header, an empty session when the header is absent or invalid.
GetSession(cookieHeader) ==
    IF cookieHeader.defined /\ cookieHeader.sig = "valid"
    THEN Decode(cookieHeader.payload)
    ELSE EmptyMap

\* verifySessionStorage.commitSession(session): the set-cookie header value.
CommitSession(data) ==
    [defined |-> TRUE, value |-> Signed(Encode(data))]

\* The session datas a browser may bring along: a reset entry for one of the
\* first two accounts or none, with or without the other key.
SessionDatas ==
    {d \in UNION {[K -> {UserNames[1], UserNames[2], Emails[1]}] :
                     K \in SUBSET SessionKeys} :
        /\ Has(d, otherSessionKey) => d[otherSessionKey] = Emails[1]
        /\ Has(d, resetPasswordUsernameSessionKey) =>
               d[resetPasswordUsernameSessionKey] # Emails[1]}

FullData ==
    [k \in SessionKeys |->
        IF k = otherSessionKey THEN Emails[1] ELSE UserNames[1]]

InitialJars ==
    {Undefined} \cup {Signed(Encode(d)) : d \in SessionDatas}
        \cup {Tampered(Encode(FullData))}

\* What the browser's cookie holds, as the server would read it.
JarData == GetSession(jar)

---------------------------------------------------------------------------
(* Responses *)

NoHeader == Undefined

\* json(body, { status })
Json(body, status) ==
    [kind |-> "json", status |-> status, body |-> body, setCookie |-> NoHeader]

\* redirect(url, { headers: { 'set-cookie': cookie } })
Redirect(url, cookie) ==
    [kind |-> "redirect", status |-> 302, location |-> url, setCookie |-> cookie]

\* An error that leaves the handler uncaught.
Thrown(message) ==
    [kind |-> "thrown", message |-> message, setCookie |-> NoHeader]

NoResponse == [kind |-> "none", setCookie |-> NoHeader]

---------------------------------------------------------------------------
(* Submissions handed to handleVerification *)

VerifySubmission(t) ==
    [value |-> [defined |-> TRUE, target |-> t], error |-> EmptyMap]

SubmissionWithoutValue == [value |-> Undefined, error |-> EmptyMap]

VerifySubmissions ==
    {VerifySubmission(t) : t \in Targets} \cup {SubmissionWithoutValue}

NoSubmission == [value |-> Undefined, error |-> EmptyMap, none |-> TRUE]

NoRequest == [kind |-> "none"]

NoHistory == [kind |-> "none"]

---------------------------------------------------------------------------
(* The reset-password form and its schema *)

intentField == "__intent__"

\* Candidate field values: one that passwordSchema rejects, two it accepts.
Passwords == {"short", "hunter22", "hunter23"}

\* passwordSchema (imported from ~/utils/user-validation.ts)
passwordSchema(p) == p \notin {"short"}

Intents == {"submit", "validate/password"}

\* Form data: a value for some of the three fields.
Forms ==
    {f \in UNION {[K -> Passwords \cup Intents] :
                     K \in SUBSET {"password", "confirmPassword", intentField}} :
        \A k \in DOMAIN f : (k = intentField) <=> (f[k] \in Intents)}

\* A field of the object schema: required, and checked by passwordSchema.
PasswordSchemaOk(form, field) ==
    Has(form, field) /\ passwordSchema(form[field])

\* ResetPasswordSchema: both fields pass passwordSchema, then the refinement
\* password === confirmPassword.
ResetPasswordSchemaNoRefine(form) ==
    /\ PasswordSchemaOk(form, "password")
    /\ PasswordSchemaOk(form, "confirmPassword")

ResetPasswordSchema(form) ==
    /\ PasswordSchemaOk(form, "password")
    /\ PasswordSchemaOk(form, "confirmPassword")
    /\ form["password"] = form["confirmPassword"]

\* parse(formData, { schema: ResetPasswordSchema, ... }): the intent (submit
\* when the form names none) and the value, present when the schema passes.
Parse(form) ==
    [intent |-> IF Has(form, intentField) THEN form[intentField] ELSE "submit",
     value |-> IF ResetPasswordSchema(form)
               THEN [defined |-> TRUE, password |-> form["password"],
                     confirmPassword |-> form["confirmPassword"]]
               ELSE Undefined,
     error |-> IF ResetPasswordSchema(form) THEN EmptyMap
               ELSE IF ResetPasswordSchemaNoRefine(form)
                    THEN [k \in {"confirmPassword"} |-> "The passwords did not match"]
                    ELSE [k \in {x \in {"password", "confirmPassword"} :
                                    ~PasswordSchemaOk(form, x)} |-> "invalid"]]

---------------------------------------------------------------------------
(* State *)

Init ==
    /\ store \in Stores
    /\ jar \in InitialJars
    /\ pc = "idle"
    /\ req = NoRequest
    /\ submission = NoSubmission
    /\ target = ""
    /\ user = Undefined
    /\ verifySession = EmptyMap
    /\ trace = <<>>
    /\ resp = NoResponse
    /\ hist = NoHistory
    /\ lastOk = ""

locals == <<submission, target, user, verifySession>>

browser == <<jar, hist, lastOk>>

---------------------------------------------------------------------------
(* handleVerification *)

\* A variant without the invariant, reading submission.value?.target.
HV_BeginOptionalChaining ==
    /\ pc = "idle"
    /\ \E sub \in VerifySubmissions :
        /\ req' = [kind |-> "verify", cookie |-> jar, submission |-> sub]
        /\ submission' = sub
        /\ target' = IF sub.value.defined THEN sub.value.target ELSE ""
        /\ trace' = <<"findFirst">>
        /\ pc' = "findFirst"
    /\ UNCHANGED <<store, user, verifySession, resp, browser>>

\* A variant that starts findFirst and getSession together.
HV_BeginConcurrent ==
    /\ pc = "idle"
    /\ \E sub \in VerifySubmissions :
        /\ req' = [kind |-> "verify", cookie |-> jar, submission |-> sub]
        /\ submission' = sub
        /\ IF ~sub.value.defined
           THEN /\ resp' = Thrown(InvariantMessage)
                /\ pc' = "done"
                /\ UNCHANGED <<target, trace>>
           ELSE /\ target' = sub.value.target
                /\ trace' = <<"findFirst", "getSession">>
                /\ pc' = "findFirst"
                /\ UNCHANGED resp
    /\ UNCHANGED <<store, user, verifySession, browser>>

\* Lines 32-34: the invariant, the target, and the call of findFirst.
HV_Begin ==
    /\ pc = "idle"
    /\ \E sub \in VerifySubmissions :
        /\ req' = [kind |-> "verify", cookie |-> jar, submission |-> sub]
        /\ submission' = sub
        /\ IF ~sub.value.defined
           THEN /\ resp' = Thrown(InvariantMessage)
                /\ pc' = "done"
                /\ UNCHANGED <<target, trace>>
           ELSE /\ target' = sub.value.target
                /\ trace' = <<"findFirst">>
                /\ pc' = "findFirst"
                /\ UNCHANGED resp
    /\ UNCHANGED <<store, user, verifySession, browser>>

\* A variant whose not-found branch also destroys the verification session.
HV_FindFirstResolvedClearsSession ==
    /\ pc = "findFirst"
    /\ LET u == FindFirst(store, target)
       IN  /\ user' = u
           /\ IF ~u.defined
              THEN /\ submission' =
                        [submission EXCEPT
                            !.error = SessionSet(@, "code", InvalidCode)]
                   /\ resp' = [Json([status |-> "error",
                                     submission |-> submission'], 400)
                                 EXCEPT !.setCookie = CommitSession(EmptyMap)]
                   /\ trace' = trace \o <<"findFirst.ok">>
                   /\ pc' = "done"
              ELSE /\ trace' = trace \o <<"findFirst.ok", "getSession">>
                   /\ pc' = "getSession"
                   /\ UNCHANGED <<submission, resp>>
    /\ UNCHANGED <<store, req, target, verifySession, browser>>

\* Lines 34-47: findFirst resolves; the not-found branch, or the call of
\* getSession with the request's cookie header.
HV_FindFirstResolved ==
    /\ pc = "findFirst"
    /\ LET u == FindFirst(store, target)
       IN  /\ user' = u
           /\ IF ~u.defined
              THEN /\ submission' =
                        [submission EXCEPT
                            !.error = SessionSet(@, "code", InvalidCode)]
                   /\ resp' = Json([status |-> "error",
                                    submission |-> submission'], 400)
                   /\ trace' = trace \o <<"findFirst.ok">>
                   /\ pc' = "done"
              ELSE /\ trace' = trace \o <<"findFirst.ok", "getSession">>
                   /\ pc' = "getSession"
                   /\ UNCHANGED <<submission, resp>>
    /\ UNCHANGED <<store, req, target, verifySession, browser>>

\* A variant that stores the target instead of the account's username.
HV_GetSessionResolvedSetsTarget ==
    /\ pc = "getSession"
    /\ verifySession' =
            SessionSet(GetSession(req.cookie),
                       resetPasswordUsernameSessionKey, target)
    /\ trace' = trace \o <<"getSession.ok", "set", "commitSession">>
    /\ pc' = "commitSession"
    /\ UNCHANGED <<store, req, submission, target, user, resp, browser>>

\* A variant that calls getSession() without the request's cookie header.
HV_GetSessionResolvedFresh ==
    /\ pc = "getSession"
    /\ verifySession' =
            SessionSet(GetSession(Undefined),
                       resetPasswordUsernameSessionKey, user.username)
    /\ trace' = trace \o <<"getSession.ok", "set", "commitSession">>
    /\ pc' = "commitSession"
    /\ UNCHANGED <<store, req, submission, target, user, resp, browser>>

\* Lines 45-51: getSession resolves; the key is set and commitSession called.
HV_GetSessionResolved ==
    /\ pc = "getSession"
    /\ verifySession' =
            SessionSet(GetSession(req.cookie),
                       resetPasswordUsernameSessionKey, user.username)
    /\ trace' = trace \o <<"getSession.ok", "set", "commitSession">>
    /\ pc' = "commitSession"
    /\ UNCHANGED <<store, req, submission, target, user, resp, browser>>

\* Lines 49-53: commitSession resolves; the redirect carries its result.
HV_CommitSessionResolved ==
    /\ pc = "commitSession"
    /\ resp' = Redirect(ResetPasswordPath, CommitSession(verifySession))
    /\ trace' = trace \o <<"commitSession.ok", "redirect">>
    /\ pc' = "done"
    /\ UNCHANGED <<store, req, locals, browser>>

\* A variant that catches the rejection and answers as for no account.
HV_RejectedCaught(awaited) ==
    /\ pc = awaited
    /\ submission' =
            [submission EXCEPT !.error = SessionSet(@, "code", InvalidCode)]
    /\ resp' = Json([status |-> "error", submission |-> submission'], 400)
    /\ trace' = trace \o <<awaited \o ".err">>
    /\ pc' = "done"
    /\ UNCHANGED <<store, req, target, user, verifySession, browser>>

\* An await whose promise rejects: nothing in the handler catches it.
HV_Rejected(awaited) ==
    /\ pc = awaited
    /\ resp' = Thrown(awaited)
    /\ trace' = trace \o <<awaited \o ".err">>
    /\ pc' = "done"
    /\ UNCHANGED <<store, req, locals, browser>>

HV_FindFirstRejected == HV_Rejected("findFirst")

HV_GetSessionRejected == HV_Rejected("getSession")

HV_CommitSessionRejected == HV_Rejected("commitSession")

---------------------------------------------------------------------------
(* loader and action *)

\* Lines 66-69.
Loader ==
    /\ pc = "idle"
    /\ req' = [kind |-> "loader", cookie |-> jar]
    /\ resp' = Json([resetPasswordUsername |-> LoaderPlaceholder], 200)
    /\ pc' = "done"
    /\ UNCHANGED <<store, locals, trace, browser>>

\* A variant that tests the value before the intent.
ActionOutcomeValueFirst(parsed) ==
    IF ~parsed.value.defined
    THEN Json([status |-> "error", submission |-> parsed], 400)
    ELSE IF parsed.intent # "submit"
         THEN Json([status |-> "idle", submission |-> parsed], 200)
         ELSE Thrown(NotImplementedMessage)

\* Lines 71-85.
ActionOutcome(parsed) ==
    IF parsed.intent # "submit"
    THEN Json([status |-> "idle", submission |-> parsed], 200)
    ELSE IF ~parsed.value.defined
         THEN Json([status |-> "error", submission |-> parsed], 400)
         ELSE Thrown(NotImplementedMessage)

Action ==
    /\ pc = "idle"
    /\ \E form \in Forms :
        /\ req' = [kind |-> "action", cookie |-> jar, form |-> form]
        /\ resp' = ActionOutcome(Parse(form))
    /\ pc' = "done"
    /\ UNCHANGED <<store, locals, trace, browser>>

---------------------------------------------------------------------------
(* The browser *)

\* The browser takes the response: a set-cookie header replaces its cookie.
Deliver ==
    /\ pc = "done"
    /\ jar' = IF resp.setCookie.defined THEN resp.setCookie.value ELSE jar
    /\ hist' = IF req.kind = "verify" THEN [kind |-> "verify", req |-> req, resp |-> resp]
               ELSE [kind |-> req.kind]
    /\ lastOk' = IF req.kind = "verify" /\ resp.kind = "redirect"
                 THEN req.submission.value.target
                 ELSE lastOk
    /\ pc' = "idle"
    /\ req' = NoRequest
    /\ submission' = NoSubmission
    /\ target' = ""
    /\ user' = Undefined
    /\ verifySession' = EmptyMap
    /\ trace' = <<>>
    /\ resp' = NoResponse
    /\ UNCHANGED store

---------------------------------------------------------------------------
(* Specifications *)

Next ==
    \/ HV_Begin
    \/ HV_FindFirstResolved
    \/ HV_GetSessionResolved
    \/ HV_CommitSessionResolved
    \/ Loader
    \/ Action
    \/ Deliver

\* Every collaborator call succeeds.
Spec == Init /\ [][Next]_vars

NextF ==
    \/ Next
    \/ HV_FindFirstRejected
    \/ HV_GetSessionRejected
    \/ HV_CommitSessionRejected

\* A collaborator call may fail.
SpecF == Init /\ [][NextF]_vars

---------------------------------------------------------------------------
(* Vocabulary of the properties *)

\* The rows of the store whose email or username is the text t.
AccountsWith(t) ==
    {i \in DOMAIN store : store[i].email = t \/ store[i].username = t}

\* A handleVerification call on a defined submission.value is being served
\* (Called) or has produced its outcome (Returned).
Called == req.kind = "verify" /\ req.submission.value.defined

Returned == pc = "done" /\ Called

Target == req.submission.value.target

\* The session a set-cookie header commits, parsed back.
Committed(r) == GetSession(r.setCookie.value)

Occurs(event) == \E i \in DOMAIN trace : trace[i] = event

Count(event) == Cardinality({i \in DOMAIN trace : trace[i] = event})

\* Every occurrence of `later` has an occurrence of `earlier` before it.
Precedes(earlier, later) ==
    \A j \in DOMAIN trace :
        trace[j] = later => \E i \in 1..(j - 1) : trace[i] = earlier

---------------------------------------------------------------------------
(* C1 *)

\* C1: when handleVerification returns for a defined submission.value, the
\* response carries a set-cookie header whose session holds
\* resetPasswordUsername if and only if some account's email or username is
\* the target; for a target of no account no session is loaded, written or
\* committed at any point of the call.
C1_SessionIffAccount ==
    /\ Returned =>
        ((resp.setCookie.defined
            /\ Has(Committed(resp), "resetPasswordUsername"))
         <=> AccountsWith(Target) # {})
    /\ (Called /\ AccountsWith(Target) = {}) =>
        /\ ~Occurs("getSession") /\ ~Occurs("set") /\ ~Occurs("commitSession")
        /\ verifySession = EmptyMap

\* A verification by email has returned with the session set, and the
\* browser had sent a cookie that does not verify.
C1_Witness ==
    /\ Returned
    /\ \E i \in AccountsWith(Target) : store[i].email = Target
    /\ resp.setCookie.defined
    /\ Has(Committed(resp), "resetPasswordUsername")
    /\ req.cookie.defined /\ req.cookie.sig = "invalid"

---------------------------------------------------------------------------
(* C2 *)

\* The outcome for a target of no account.
C2_UnresolvedOutcome ==
    (Returned /\ AccountsWith(Target) = {}) =>
        /\ resp.kind = "json" /\ resp.status = 400
        /\ resp.body.status = "error"
        /\ resp.body.submission.value = req.submission.value
        /\ DOMAIN resp.body.submission.error = {"code"}
        /\ resp.body.submission.error["code"] = "Invalid code"
        /\ ~resp.setCookie.defined
        /\ verifySession = EmptyMap
        /\ (hist.kind = "verify" /\ hist.req.submission = req.submission) =>
                hist.resp = resp

\* Taking that outcome changes neither the browser's cookie nor the store.
C2_NoSideEffect ==
    (Returned /\ AccountsWith(Target) = {}) => (jar' = jar /\ store' = store)

\* C2: for a target of no account handleVerification returns status 400
\* with body status "error" and submission.error.code "Invalid code", the
\* same on a repeated call; there is no set-cookie header, and nothing but
\* the submission's error field is written: the rest of the submission, the
\* store and the browser's cookie stay as they were.
C2_InvalidCode == []C2_UnresolvedOutcome /\ [][C2_NoSideEffect]_vars

\* The same unresolved target has been verified twice in a row, by a
\* browser that holds a session.
C2_Witness ==
    /\ Returned /\ AccountsWith(Target) = {}
    /\ store # <<>>
    /\ hist.kind = "verify" /\ hist.req.submission = req.submission
    /\ Has(JarData, "resetPasswordUsername")

---------------------------------------------------------------------------
(* C3 *)

\* C3: for a target that matches exactly one account, by its email or by its
\* username, handleVerification returns a redirect to /reset-password with a
\* set-cookie header whose session holds that account's username under
\* resetPasswordUsername; verifying the account's username and verifying its
\* email, with the same incoming cookie, give the same response.
C3_RedirectWithUsername ==
    (Returned /\ Cardinality(AccountsWith(Target)) = 1) =>
        LET account == store[CHOOSE i \in AccountsWith(Target) : TRUE]
        IN  /\ resp.kind = "redirect"
            /\ resp.location = "/reset-password"
            /\ resp.setCookie.defined
            /\ Has(Committed(resp), "resetPasswordUsername")
            /\ Committed(resp)["resetPasswordUsername"] = account.username
            /\ (/\ hist.kind = "verify"
                /\ hist.req.submission.value.defined
                /\ hist.req.cookie = req.cookie
                /\ AccountsWith(hist.req.submission.value.target)
                        = AccountsWith(Target))
               => hist.resp = resp

\* The account's email has been verified right after its username, with the
\* same incoming cookie, in a store that holds another account too.
C3_Witness ==
    /\ Returned /\ Cardinality(AccountsWith(Target)) = 1
    /\ Len(store) > 1
    /\ LET account == store[CHOOSE i \in AccountsWith(Target) : TRUE]
       IN  /\ Target = account.email
           /\ hist.kind = "verify"
           /\ hist.req.submission.value.defined
           /\ hist.req.submission.value.target = account.username
           /\ hist.req.cookie = req.cookie
    /\ resp.kind = "redirect"

---------------------------------------------------------------------------
(* C4 *)

\* C4: on the success path every key other than resetPasswordUsername of
\* the session parsed from the incoming cookie is in the committed session
\* with the same value, and the committed session has no other key besides
\* resetPasswordUsername.
C4_SessionIsolation ==
    (Returned /\ resp.kind = "redirect") =>
        LET incoming == GetSession(req.cookie)
            committed == Committed(resp)
        IN  /\ \A k \in DOMAIN incoming \ {"resetPasswordUsername"} :
                    Has(committed, k) /\ committed[k] = incoming[k]
            /\ DOMAIN committed = DOMAIN incoming \cup {"resetPasswordUsername"}

\* A success whose incoming session held another key and a reset entry for
\* a different account.
C4_Witness ==
    /\ Returned /\ resp.kind = "redirect"
    /\ Has(GetSession(req.cookie), "onboardingEmail")
    /\ Has(GetSession(req.cookie), "resetPasswordUsername")
    /\ GetSession(req.cookie)["resetPasswordUsername"]
            # Committed(resp)["resetPasswordUsername"]

---------------------------------------------------------------------------
(* C5 *)

\* C5: the loader, requested with the cookie a successful verification
\* committed, returns that session's resetPasswordUsername (the verified
\* account's username).
C5_LoaderReadsSession ==
    (/\ pc = "done" /\ req.kind = "loader"
     /\ hist.kind = "verify" /\ hist.resp.kind = "redirect"
     /\ req.cookie = hist.resp.setCookie.value) =>
        resp.body.resetPasswordUsername
            = GetSession(req.cookie)["resetPasswordUsername"]

---------------------------------------------------------------------------
(* C6 *)

\* C6: with submission.value missing handleVerification ends at once in a
\* thrown failure: no findFirst, no session load or commit, submission.error
\* not written, neither the 400 outcome nor the redirect.
C6_MissingValueIsFatal ==
    (req.kind = "verify" /\ ~req.submission.value.defined) =>
        /\ pc = "done"
        /\ resp.kind = "thrown"
        /\ resp.message = "submission.value should be defined by now"
        /\ ~resp.setCookie.defined
        /\ trace = <<>>
        /\ submission = req.submission
        /\ submission.error = EmptyMap
        /\ user = Undefined
        /\ verifySession = EmptyMap

\* A call without submission.value has ended, in a non-empty store.
C6_Witness ==
    /\ pc = "done" /\ req.kind = "verify" /\ ~req.submission.value.defined
    /\ store # <<>>
    /\ resp.kind = "thrown"

---------------------------------------------------------------------------
(* C7 *)

\* C7: a failing findFirst, getSession or commitSession leaves
\* handleVerification as a thrown failure: each of the three is called at
\* most once per call, nothing is attempted after the failure, a failure is
\* never answered with the 400 "Invalid code" outcome, and there is no
\* redirect and no set-cookie header.
C7_FailuresPropagate ==
    /\ Count("findFirst") <= 1
    /\ Count("getSession") <= 1
    /\ Count("commitSession") <= 1
    /\ \A op \in {"findFirst", "getSession", "commitSession"} :
        Occurs(op \o ".err") =>
            /\ pc = "done"
            /\ trace[Len(trace)] = op \o ".err"
            /\ resp.kind = "thrown"
            /\ ~resp.setCookie.defined
            /\ submission = req.submission

\* commitSession has failed for a target that resolves to an account.
C7_Witness ==
    /\ Returned /\ AccountsWith(Target) # {}
    /\ Occurs("commitSession.err")
    /\ resp.kind = "thrown"

---------------------------------------------------------------------------
(* C8 *)

\* The order of the events of one call.
C8_Order ==
    /\ Precedes("findFirst.ok", "getSession")
    /\ Precedes("getSession.ok", "set")
    /\ Precedes("set", "commitSession")
    /\ Precedes("commitSession.ok", "redirect")
    /\ (req.kind = "verify" /\ resp.kind = "redirect") => Occurs("redirect")
    /\ pc = "getSession" => ~Occurs("getSession.ok")
    /\ pc = "commitSession" => ~Occurs("commitSession.ok")

\* C8: within one call findFirst completes before getSession is called,
\* getSession completes before the key is set, the key is set before
\* commitSession is called, and commitSession completes before the redirect
\* is produced; no step of any handler changes the account store.
C8_Sequential == []C8_Order /\ [][store' = store]_vars

\* A call has run to its redirect in a non-empty store.
C8_Witness ==
    /\ Returned /\ resp.kind = "redirect"
    /\ trace = <<"findFirst", "findFirst.ok", "getSession", "getSession.ok",
                 "set", "commitSession", "commitSession.ok", "redirect">>

---------------------------------------------------------------------------
(* C9 *)

\* The form's fields as the schema requires them: both passwords present,
\* each accepted by passwordSchema, and equal.
ValidMatching(form) ==
    /\ "password" \in DOMAIN form /\ "confirmPassword" \in DOMAIN form
    /\ passwordSchema(form["password"])
    /\ passwordSchema(form["confirmPassword"])
    /\ form["password"] = form["confirmPassword"]

SubmitIntent(form) ==
    "__intent__" \notin DOMAIN form \/ form["__intent__"] = "submit"

\* The outcome of the action by the form it was given.
C9_Outcome ==
    (pc = "done" /\ req.kind = "action") =>
        /\ ~SubmitIntent(req.form) =>
                /\ resp.kind = "json" /\ resp.status = 200
                /\ resp.body.status = "idle"
        /\ (SubmitIntent(req.form) /\ ~ValidMatching(req.form)) =>
                /\ resp.kind = "json" /\ resp.status = 400
                /\ resp.body.status = "error"
        /\ (SubmitIntent(req.form) /\ ValidMatching(req.form)) =>
                /\ resp.kind = "thrown"
                /\ resp.message = "This has not yet been implemented"
        /\ ~resp.setCookie.defined
        /\ trace = <<>>

\* Taking the action's outcome changes neither the cookie nor the store.
C9_NoMutation ==
    (pc = "done" /\ req.kind = "action") => (jar' = jar /\ store' = store)

\* C9: the action has three outcomes: status "idle" with HTTP 200 for an
\* intent other than "submit", whatever the fields; status "error" with HTTP
\* 400 for intent "submit" without a valid matching password; a thrown error
\* for intent "submit" with one. None sets a cookie, calls a collaborator or
\* changes the store or the browser's cookie.
C9_ActionOutcomes == []C9_Outcome /\ [][C9_NoMutation]_vars

\* A validate intent on a form whose passwords differ has been answered.
C9_Witness ==
    /\ pc = "done" /\ req.kind = "action"
    /\ ~SubmitIntent(req.form)
    /\ "password" \in DOMAIN req.form /\ "confirmPassword" \in DOMAIN req.form
    /\ req.form["password"] # req.form["confirmPassword"]
    /\ resp.kind = "json" /\ resp.body.status = "idle"

---------------------------------------------------------------------------
(* C10 *)

\* The browser holds the entry of the most recent success.
C10_Latest ==
    lastOk # "" =>
        /\ AccountsWith(lastOk) # {}
        /\ Has(JarData, "resetPasswordUsername")
        /\ JarData["resetPasswordUsername"] =
                store[CHOOSE i \in AccountsWith(lastOk) :
                        \A j \in AccountsWith(lastOk) : i <= j].username

\* Taking an outcome other than the redirect leaves the cookie as it was.
C10_FailureKeeps ==
    (pc = "done" /\ req.kind = "verify" /\ resp.kind # "redirect") =>
        jar' = jar

\* C10: once a verification has succeeded, the resetPasswordUsername in the
\* browser's session is the username of the account of the most recent
\* successful verification; a verification that does not succeed leaves the
\* browser's cookie, and so a stored resetPasswordUsername, as it was.
C10_MostRecentSuccess == []C10_Latest /\ [][C10_FailureKeeps]_vars

\* After a success and then a verification of an unresolved target, sent
\* with the entry in its cookie, the browser still holds the entry.
C10_Witness ==
    /\ pc = "idle"
    /\ lastOk # ""
    /\ hist.kind = "verify" /\ hist.resp.kind = "json"
    /\ Has(GetSession(hist.req.cookie), "resetPasswordUsername")
    /\ Has(JarData, "resetPasswordUsername")

=============================================================================
